---- MODULE Spec2Model ----
(***************************************************************************)
(* Model of the graph-analysis pipeline of final_work/code/__init__.py:    *)
(* load_graphs_from_graph6_file, calculate_centralities,                   *)
(* evaluate_connectivity and main, and of the example graph of l2/ex_1.py. *)
(***************************************************************************)
EXTENDS Integers, Sequences, FiniteSets, TLC

\* ------------------------------------------------------------------ bounds
MaxNodes == 4

MaxCatalog == 3

MaxVals == 4

MaxVal == 4

MaxFiles == 2

MaxLines == 3

\* ------------------------------------------------------------- exceptions
\* A call either returns a value or raises: [ok, val].
Ok(v) == [ok |-> TRUE, val |-> v]

Raise(e) == [ok |-> FALSE, val |-> e]

\* ------------------------------------------------------------------ graphs
\* An undirected simple graph: nodes (integers, iterated in ascending order,
\* the insertion order of the decoders and of ex_1.py) and edges {u, v}.
Graph(nodes, edges) == [nodes |-> nodes, edges |-> edges]

EdgeSet(pairs) == {{p[1], p[2]} : p \in pairs}

\* l2/ex_1.py: V = [1..6], E = 8 edges; node 6 has no edge.
V == 1..6

E == {<<1,3>>, <<1,4>>, <<1,5>>, <<2,3>>, <<2,4>>, <<2,5>>, <<3,5>>, <<4,5>>}

ExampleG == Graph(V, EdgeSet(E))

\* Two disjoint triangles.
TwoTriangles == Graph(1..6, EdgeSet({<<1,2>>, <<2,3>>, <<1,3>>, <<4,5>>, <<5,6>>, <<4,6>>}))

NullGraph == Graph({}, {})

number_of_nodes(g) == Cardinality(g.nodes)

number_of_edges(g) == Cardinality(g.edges)

Neighbors(g, v) == {u \in g.nodes : {u, v} \in g.edges}

SetMin(S) == CHOOSE x \in S : \A y \in S : x <= y

SetMax(S) == CHOOSE x \in S : \A y \in S : x >= y

RECURSIVE NodeOrder(_)
NodeOrder(S) == IF S = {} THEN <<>> ELSE <<SetMin(S)>> \o NodeOrder(S \ {SetMin(S)})

\* nx.single_source_shortest_path_length: breadth-first levels from a source.
RECURSIVE bfs_levels(_, _, _, _, _)
bfs_levels(g, frontier, seen, d, acc) ==
    IF frontier = {} THEN acc
    ELSE LET next == (UNION {Neighbors(g, v) : v \in frontier}) \ seen
         IN bfs_levels(g, next, seen \cup next, d + 1, acc @@ [v \in next |-> d + 1])

shortest_path_length(g, s) == bfs_levels(g, {s}, {s}, 0, [v \in {s} |-> 0])

\* nx.connected_components: for v in G: if v not in seen: yield the nodes
\* reachable from v.
RECURSIVE cc_scan(_, _, _, _)
cc_scan(g, todo, seen, acc) ==
    IF todo = <<>> THEN acc
    ELSE LET v == Head(todo)
             c == DOMAIN shortest_path_length(g, v)
         IN IF v \in seen THEN cc_scan(g, Tail(todo), seen, acc)
            ELSE cc_scan(g, Tail(todo), seen \cup c, Append(acc, c))

connected_components(g) == cc_scan(g, NodeOrder(g.nodes), {}, <<>>)

NontrivialComponents(g) ==
    Cardinality({j \in DOMAIN connected_components(g) :
                   Cardinality(connected_components(g)[j]) > 1})

number_connected_components(g) == Len(connected_components(g))

\* max(components, key=len): the first component of greatest length;
\* ValueError on an empty list.
RECURSIVE max_by_len(_, _)
max_by_len(comps, best) ==
    IF comps = <<>> THEN best
    ELSE max_by_len(Tail(comps),
                    IF Cardinality(Head(comps)) > Cardinality(best) THEN Head(comps) ELSE best)

largest_of(comps) ==
    IF comps = <<>> THEN Raise("ValueError") ELSE Ok(max_by_len(Tail(comps), Head(comps)))

subgraph(g, S) == Graph(g.nodes \cap S, {e \in g.edges : e \subseteq S})

\* nx.diameter = max of nx.eccentricity, which raises NetworkXError when
\* some node does not reach every node, and max() of nothing is a ValueError.
eccentricity(g) ==
    IF \E n \in g.nodes : DOMAIN shortest_path_length(g, n) # g.nodes
    THEN Raise("NetworkXError")
    ELSE Ok([n \in g.nodes |->
               LET len == shortest_path_length(g, n)
               IN SetMax({len[v] : v \in DOMAIN len})])

diameter(g) ==
    LET e == eccentricity(g)
    IN IF ~e.ok THEN e
       ELSE IF g.nodes = {} THEN Raise("ValueError")
       ELSE Ok(SetMax({e.val[n] : n \in g.nodes}))

KeyComponents == "Number of connected components"

KeyLargest == "Size of largest component"

KeyDiameter == "Graph diameter"

\* The subgraph the diameter is taken of.
DiameterSubgraphWhole(g, largest_component) == g

DiameterSubgraph(g, largest_component) == subgraph(g, largest_component)

evaluate_connectivity(g) ==
    LET num_components == number_connected_components(g)
        components == connected_components(g)
        largest_component == largest_of(components)
    IN IF ~largest_component.ok THEN largest_component
       ELSE LET largest_size == Cardinality(largest_component.val)
                largest_subgraph == DiameterSubgraph(g, largest_component.val)
                diam == diameter(largest_subgraph)
            IN IF ~diam.ok THEN diam
               ELSE Ok((KeyComponents :> num_components)
                       @@ (KeyLargest :> largest_size)
                       @@ (KeyDiameter :> diam.val))

\* All simple graphs on the node sets 1..n, n <= MaxNodes, and the two named ones.
AllEdges(n) == {{u, v} : u, v \in 1..n} \ {{u} : u \in 1..n}

SmallGraphs == UNION {{Graph(1..n, es) : es \in SUBSET AllEdges(n)} : n \in 0..MaxNodes}

ConnGraphs == SmallGraphs \cup {ExampleG, TwoTriangles}

\* ------------------------------------------------------- exact arithmetic
\* statistics works on exact fractions; [n, d] with d > 0, in lowest terms.
RECURSIVE gcd(_, _)
gcd(a, b) == IF b = 0 THEN a ELSE gcd(b, a % b)

Abs(x) == IF x < 0 THEN -x ELSE x

Frac(n, d) ==
    LET s == IF d < 0 THEN -1 ELSE 1
        g == gcd(Abs(n), Abs(d))
    IN [n |-> (s * n) \div g, d |-> (s * d) \div g]

FracAdd(a, b) == Frac(a.n * b.d + b.n * a.d, a.d * b.d)

FracSub(a, b) == Frac(a.n * b.d - b.n * a.d, a.d * b.d)

FracMul(a, b) == Frac(a.n * b.n, a.d * b.d)

RECURSIVE sum(_)
sum(values) == IF values = <<>> THEN 0 ELSE Head(values) + sum(Tail(values))

min(values) == SetMin({values[j] : j \in DOMAIN values})

max(values) == SetMax({values[j] : j \in DOMAIN values})

\* The float square root, kept to the four decimals the report prints
\* (units of 1/10000, truncated).
RECURSIVE isqrt(_, _, _)
isqrt(x, lo, hi) ==
    IF lo >= hi THEN lo
    ELSE LET mid == (lo + hi + 1) \div 2
         IN IF mid * mid <= x THEN isqrt(x, mid, hi) ELSE isqrt(x, lo, mid - 1)

sqrt(f) ==
    LET a == (f.n * 10000) \div f.d
        r == (f.n * 10000) % f.d
        x == a * 10000 + (r * 10000) \div f.d
    IN isqrt(x, 0, 40000)

\* statistics.pstdev: the mean, the sum of squared deviations from it,
\* divided by the number of values; StatisticsError on no value.
RECURSIVE sum_sq_dev(_, _)
sum_sq_dev(values, mean) ==
    IF values = <<>> THEN Frac(0, 1)
    ELSE LET dev == FracSub(Frac(Head(values), 1), mean)
         IN FracAdd(FracMul(dev, dev), sum_sq_dev(Tail(values), mean))

variance(values, divisor) ==
    LET mean == Frac(sum(values), Len(values))
        ss == sum_sq_dev(values, mean)
    IN FracMul(ss, Frac(1, divisor))

pstdev(values) ==
    IF Len(values) < 1 THEN Raise("StatisticsError")
    ELSE Ok(sqrt(variance(values, Len(values))))

\* statistics.stdev: the sample standard deviation (divisor n - 1).
stdev(values) ==
    IF Len(values) < 2 THEN Raise("StatisticsError")
    ELSE Ok(sqrt(variance(values, Len(values) - 1)))

\* ---------------------------------------------------------------- measures
\* A measure's raw result: [type, values].  type "dict" is a per-node
\* mapping (values in node order), "number" one value, "set" a cut.
Result(type, values) == [type |-> type, values |-> values]

isinstance_dict(result) == result.type = "dict"

\* A catalog entry: a label and a function.  A library function has a kind
\* ("per_node" or "scalar") and an answer that depends on the graph; a stub
\* always does the same thing (out).
LibFunc(name, kind) == [name |-> name, kind |-> kind, out |-> Raise("library")]

Stub(out) == [name |-> "stub", kind |-> "stub", out |-> out]

Entry(label, func) == [label |-> label, func |-> func]

\* main: dict_centralities (lines 172-184), in declared order.
dict_centralities ==
    << Entry("Degree", LibFunc("nx.degree_centrality", "per_node")),
       Entry("Closeness", LibFunc("nx.closeness_centrality", "per_node")),
       Entry("Betweenness", LibFunc("nx.betweenness_centrality", "per_node")),
       Entry("Eigenvector", LibFunc("nx.eigenvector_centrality", "per_node")),
       Entry("Katz Centrality", LibFunc("nx.katz_centrality", "per_node")),
       Entry("PageRank", LibFunc("nx.pagerank", "per_node")),
       Entry("Harmonic Centrality", LibFunc("nx.harmonic_centrality", "per_node")),
       Entry("Current-flow Betweenness",
             LibFunc("nx.current_flow_betweenness_centrality", "per_node")) >>

\* main: dict_connectivity (lines 185-198), in declared order.
dict_connectivity ==
    << Entry("Node Connectivity", LibFunc("nx.node_connectivity", "scalar")),
       Entry("Edge Connectivity", LibFunc("nx.edge_connectivity", "scalar")),
       Entry("Algebraic Connectivity", LibFunc("nx.algebraic_connectivity", "scalar")),
       Entry("Average Node Connectivity", LibFunc("nx.average_node_connectivity", "scalar")),
       Entry("Graph Density", LibFunc("nx.density", "scalar")),
       Entry("Average Shortest Path Length",
             LibFunc("nx.average_shortest_path_length", "scalar")),
       Entry("Global Clustering Coefficient", LibFunc("nx.transitivity", "scalar")),
       Entry("Minimum Node Cut", LibFunc("nx.minimum_node_cut", "set")),
       Entry("Minimum Edge Cut", LibFunc("nx.minimum_edge_cut", "set")) >>

Labels(measures) == {measures[j].label : j \in DOMAIN measures}

\* calculate_centralities, lines 91-99: the keyword arguments by label.
kwargs(label) ==
    IF label = "Algebraic Connectivity" THEN "method=lanczos"
    ELSE IF label = "Katz Centrality" THEN "alpha=0.005, beta=1.0, max_iter=2000"
    ELSE IF label = "PageRank" THEN "alpha=0.85"
    ELSE ""

\* What the library answers on graph g when the call does not raise: a
\* per-node measure gives one value per node (the node's degree stands for
\* the score), a scalar measure a number, a cut measure a set.
LibraryAnswer(func, g) ==
    IF func.kind = "per_node"
    THEN Result("dict", [j \in 1..number_of_nodes(g) |->
                           Cardinality(Neighbors(g, NodeOrder(g.nodes)[j]))])
    ELSE IF func.kind = "set" THEN Result("set", <<>>)
    ELSE Result("number", <<number_connected_components(g)>>)

\* The outcome of func(G, ...): a stub's own outcome; a library function
\* raises for the labels in `failing` (the environment's choice for this
\* run) and answers otherwise.
CallOutcome(entry, g, failing) ==
    IF entry.func.kind = "stub" THEN entry.func.out
    ELSE IF entry.label \in failing THEN Raise("NetworkXError")
    ELSE Ok(LibraryAnswer(entry.func, g))

KeyAverage == "Average"

KeyMinimum == "Minimum"

KeyMaximum == "Maximum"

KeyStdDev == "Standard Deviation"

\* Line 109: the standard deviation the summary reports.
SampleStdDev(values) == stdev(values)

std_dev_of(values) == pstdev(values)

\* Lines 105-117: the summary statistics of a per-node result.
summary_statistics(values) ==
    IF Len(values) = 0 THEN Raise("ZeroDivisionError")
    ELSE LET average_value == Frac(sum(values), Len(values))
             min_value == min(values)
             max_value == max(values)
             std_dev == std_dev_of(values)
         IN IF ~std_dev.ok THEN std_dev
            ELSE Ok((KeyAverage :> average_value) @@ (KeyMinimum :> min_value)
                    @@ (KeyMaximum :> max_value) @@ (KeyStdDev :> std_dev.val))

\* Lines 100-125: what one returned result does to `results`.  Only a dict
\* result is stored; any other result is printed and nothing is stored.
store_result(results, label, result) ==
    IF isinstance_dict(result)
    THEN LET s == summary_statistics(result.values)
         IN IF s.ok THEN Ok((label :> s.val) @@ results) ELSE s
    ELSE Ok(results)

\* Line 127: except Exception catches what the call or the reduction raises.
EscapesRunner(outcome) == FALSE

caught_by_runner(outcome) == TRUE

\* ------------------------------------------------------------------- state
VARIABLES
    pc,                    \* the position of the program
    \* main
    nfiles,                \* entries of os.listdir(folder) taken so far
    file,                  \* the current entry
    graphs,                \* dict file -> graph list, as a list of pairs
    graph_list, i, G,      \* the loop over the graphs of a shard
    results_centralities, dict_evaluate, results_connectivity,
    results_df,            \* the table, a sequence of rows
    failed,                \* the files reported "Failed to read"
    incidents,             \* what was raised to main: [file, kind, at, list]
    summary,               \* the final "<name>: n nodes, m edges" lines
    \* load_graphs_from_graph6_file
    nlines,                \* lines read so far, over all files
    loaded,                \* its local list of decoded graphs
    \* calculate_centralities
    measures, k, results,  \* the catalog, the position in it, the mapping
    ret,                   \* who called: "top", "B" (line 216) or "C2" (line 220)
    failing,               \* the labels the library raises for in this run
    calls,                 \* the invocations made so far, in order
    inflight,              \* the label whose call has not returned yet
    diagnostics            \* the labels reported "Error computing"

runnerVars == <<measures, k, results, ret, failing, calls, inflight, diagnostics>>

loadVars == <<nlines, loaded>>

mainVars == <<nfiles, file, graphs, graph_list, i, G, results_centralities,
              dict_evaluate, results_connectivity, results_df, failed, incidents, summary>>

vars == <<pc, mainVars, loadVars, runnerVars>>

NoFile == [name |-> 0, ext |-> ""]

MainStart ==
    /\ nfiles = 0 /\ file = NoFile /\ graphs = <<>> /\ graph_list = <<>> /\ i = 0
    /\ results_centralities = <<>> /\ dict_evaluate = Raise("unset")
    /\ results_connectivity = <<>> /\ results_df = <<>> /\ failed = <<>>
    /\ incidents = <<>>
    /\ summary = <<>>

LoadStart == nlines = 0 /\ loaded = <<>>

RunnerStart ==
    /\ measures = <<>> /\ k = 1 /\ results = <<>> /\ ret = "top" /\ failing = {}
    /\ calls = <<>> /\ inflight = "none" /\ diagnostics = <<>>

\* --------------------------------------------------- evaluate_connectivity
ConnInit == /\ pc = "conn_call"
            /\ G \in ConnGraphs
            /\ MainStart /\ LoadStart /\ RunnerStart

ConnEvaluate == /\ pc = "conn_call"
                /\ dict_evaluate' = evaluate_connectivity(G)
                /\ pc' = "conn_return"
                /\ UNCHANGED <<nfiles, file, graphs, graph_list, i, G, results_centralities,
                               results_connectivity, results_df, failed, incidents, summary>>
                /\ UNCHANGED <<loadVars, runnerVars>>

ConnNext == ConnEvaluate

ConnSpec == ConnInit /\ [][ConnNext]_vars
\* -------------------------------------------------- calculate_centralities
\* main's except clause (lines 233-236): report the file, go on with the
\* next entry of the listing.
UncaughtInMain == FALSE

caught_by_main == TRUE

\* An exception raised at lines 207-231 (inside the try): caught, the file
\* reported, "Finished processing" printed (236) and the listing resumed.  An
\* exception nothing catches ends the run.
\* incidents records what was raised: its kind ("open", "decode", "step",
\* "measure"), the position (graphs decoded before it, or the index of the
\* graph being processed) and the graphs decoded until then.
MainExcept(kind, at, list) ==
    /\ incidents' = Append(incidents, [file |-> file, kind |-> kind, at |-> at, list |-> list])
    /\ IF caught_by_main THEN failed' = Append(failed, file) /\ pc' = "listdir"
       ELSE pc' = "crashed" /\ UNCHANGED failed

\* The locals of calculate_centralities are gone once it has returned to main.
RunnerGone ==
    /\ measures' = <<>> /\ k' = 1 /\ results' = <<>> /\ ret' = "top" /\ failing' = {}
    /\ calls' = <<>> /\ inflight' = "none" /\ diagnostics' = <<>>

\* The locals of load_graphs_from_graph6_file are gone once it has returned or raised.
LoadGone == loaded' = <<>> /\ UNCHANGED nlines

\* Lines 89-99: the next measure of the catalog is invoked with the graph
\* and the keyword arguments of its label.
RunCall ==
    /\ pc = "run_loop" /\ k <= Len(measures)
    /\ inflight' = measures[k].label
    /\ calls' = Append(calls, [label |-> measures[k].label, args |-> kwargs(measures[k].label)])
    /\ pc' = "run_wait"
    /\ UNCHANGED <<measures, k, results, ret, failing, diagnostics>>
    /\ UNCHANGED <<mainVars, loadVars>>

\* Line 89: the for loop moves to the next entry of the catalog.
SkipMeasure(n) == n + 2

next_measure(n) == n + 1

\* What the call and lines 100-125 come to: Ok(results') or what was raised.
Processed ==
    LET out == CallOutcome(measures[k], G, failing)
    IN IF out.ok THEN store_result(results, measures[k].label, out.val) ELSE out

\* Lines 100-125: the call returned and its result was handled.
RunMeasureDone ==
    /\ pc = "run_wait" /\ Processed.ok
    /\ results' = Processed.val
    /\ k' = next_measure(k) /\ inflight' = "none" /\ pc' = "run_loop"
    /\ UNCHANGED <<measures, ret, failing, calls, diagnostics>>
    /\ UNCHANGED <<mainVars, loadVars>>

\* Lines 127-128: the call, or the handling of its result, raised.
RunMeasureError ==
    /\ pc = "run_wait" /\ ~Processed.ok
    /\ inflight' = "none"
    /\ IF caught_by_runner(Processed)
       THEN /\ diagnostics' = Append(diagnostics, measures[k].label)
            /\ k' = next_measure(k) /\ pc' = "run_loop"
            /\ UNCHANGED <<failed, incidents>>
       ELSE /\ UNCHANGED <<diagnostics, k>>
            /\ IF ret = "top" THEN pc' = "run_raised" /\ UNCHANGED <<failed, incidents>>
               ELSE MainExcept("measure", i, graph_list)
    /\ UNCHANGED <<measures, results, ret, failing, calls>>
    /\ UNCHANGED <<nfiles, file, graphs, graph_list, i, G, results_centralities,
                   dict_evaluate, results_connectivity, results_df, summary>>
    /\ UNCHANGED loadVars

\* Line 129, called on its own: return results.
RunReturnTop ==
    /\ pc = "run_loop" /\ k > Len(measures) /\ ret = "top"
    /\ pc' = "run_returned"
    /\ UNCHANGED <<mainVars, loadVars, runnerVars>>

\* Stubs: a function that always errors, a number, a set, and per-node
\* mappings with no, one and four values.
BasicStubs ==
    { Stub(Raise("error")),
      Stub(Ok(Result("number", <<3>>))),
      Stub(Ok(Result("set", <<1, 2>>))),
      Stub(Ok(Result("dict", <<>>))),
      Stub(Ok(Result("dict", <<2>>))),
      Stub(Ok(Result("dict", <<1, 2, 3, 4>>))) }

TestLabels == <<"Degree", "Katz Centrality", "Graph Density", "Algebraic Connectivity",
                "PageRank", "Closeness", "Betweenness", "Eigenvector">>

ValueLists == UNION {[1..n -> 0..MaxVal] : n \in 0..MaxVals}

\* The catalogs of the runs: up to MaxCatalog stubs under the first labels,
\* and one per-node stub for every list of values.
TestCatalogs ==
    UNION {{[j \in 1..n |-> Entry(TestLabels[j], f[j])] : f \in [1..n -> BasicStubs]}
           : n \in 0..MaxCatalog}
    \cup {<<Entry("Degree", Stub(Ok(Result("dict", v))))>> : v \in ValueLists}

RunnerInit ==
    /\ pc = "run_loop"
    /\ G = ExampleG
    /\ measures \in TestCatalogs
    /\ k = 1 /\ results = <<>> /\ ret = "top" /\ failing = {}
    /\ calls = <<>> /\ inflight = "none" /\ diagnostics = <<>>
    /\ MainStart /\ LoadStart

RunnerNext == RunCall \/ RunMeasureDone \/ RunMeasureError \/ RunReturnTop

RunnerSpec == RunnerInit /\ [][RunnerNext]_vars
\* -------------------------------------------------------------------- main
\* The encoded lines of a shard: the marker decides the decoder, and the
\* decoder (the library's) returns a graph or raises.
EncodedLine(marker, decodes) == [marker |-> marker, decodes |-> decodes]

DecodedGraphs == {NullGraph, ExampleG}

EncodedLines ==
    {EncodedLine(m, d) : m \in {":", ""},
                         d \in {Ok(g) : g \in DecodedGraphs} \cup {Raise("NetworkXError")}}

startswith_colon(line) == line.marker = ":"

from_sparse6_bytes(line) == line.decodes

from_graph6_bytes(line) == line.decodes

\* Lines 22-27: format dispatch by prefix.
decode(line) == IF startswith_colon(line) THEN from_sparse6_bytes(line) ELSE from_graph6_bytes(line)

endswith_g6(f) == f.ext = ".g6"

\* graphs[file] = graph_list on an insertion-ordered dict.
DictSetDropped(d, key, value) == d

dict_set(d, key, value) ==
    IF \E j \in DOMAIN d : d[j].name = key
    THEN [j \in DOMAIN d |-> IF d[j].name = key THEN [name |-> key, list |-> value] ELSE d[j]]
    ELSE Append(d, [name |-> key, list |-> value])

\* The library's failures in one run of a catalog: no measure raises, or
\* every measure does.
FailChoices(cat) == {{}, Labels(cat)}

StatKeys == {KeyAverage, KeyMinimum, KeyMaximum, KeyStdDev}

Key(name) == <<name, "", "">>

\* Lines 227-228: one key per (class, label, statistic) of a mapping.
flatten(class, res) ==
    [key \in {<<class, l, st>> : l \in DOMAIN res, st \in StatKeys} |-> res[key[2]][key[3]]]

\* Lines 222-230.
new_row(f, idx, g, rc, rn, facts) ==
    (Key("File") :> f) @@ (Key("Graph_Index") :> idx)
    @@ (Key("Num_Nodes") :> number_of_nodes(g)) @@ (Key("Num_Edges") :> number_of_edges(g))
    @@ flatten("Centrality", rc) @@ flatten("Connectivity", rn)
    @@ [key \in {Key(n) : n \in DOMAIN facts} |-> facts[key[1]]]

\* Line 231: pd.concat([results_df, pd.DataFrame([new_row])], ignore_index=True);
\* a cell a row has no key for is NaN, that is absent.
ConcatNewFirst(df, rows) == rows \o df

concat(df, rows) == df \o rows

\* Lines 240-241: the sums over a graph list.
RECURSIVE total_nodes(_)
total_nodes(list) ==
    IF list = <<>> THEN 0 ELSE number_of_nodes(Head(list)) + total_nodes(Tail(list))

RECURSIVE total_edges(_)
total_edges(list) ==
    IF list = <<>> THEN 0 ELSE number_of_edges(Head(list)) + total_edges(Tail(list))

\* Lines 239-242: one line per entry of graphs.
summary_lines(d) ==
    [j \in DOMAIN d |-> [name |-> d[j].name,
                         nodes |-> total_nodes(d[j].list),
                         edges |-> total_edges(d[j].list)]]

MainInit ==
    /\ pc = "start" /\ G = NullGraph
    /\ MainStart /\ LoadStart /\ RunnerStart

\* Line 202: os.listdir(folder) on a readable directory.
ListDir ==
    /\ pc = "start" /\ pc' = "listdir"
    /\ UNCHANGED <<mainVars, loadVars, runnerVars>>

\* Line 202 on a directory that cannot be read: OSError, outside any try.
ListDirFails ==
    /\ pc = "start" /\ pc' = "crashed"
    /\ UNCHANGED <<mainVars, loadVars, runnerVars>>

\* Lines 202-203: the next entry is not a shard.
NextFileOther ==
    /\ pc = "listdir" /\ nfiles < MaxFiles
    /\ nfiles' = nfiles + 1
    /\ file' = [name |-> nfiles + 1, ext |-> ".png"]
    /\ ~endswith_g6(file')
    /\ UNCHANGED <<pc, graphs, graph_list, i, G, results_centralities, dict_evaluate,
                   results_connectivity, results_df, failed, incidents, summary>>
    /\ UNCHANGED <<loadVars, runnerVars>>

\* Lines 202-207: the next entry is a shard; load_graphs_from_graph6_file is called.
NextFileShard ==
    /\ pc = "listdir" /\ nfiles < MaxFiles
    /\ nfiles' = nfiles + 1
    /\ file' = [name |-> nfiles + 1, ext |-> ".g6"]
    /\ endswith_g6(file')
    /\ pc' = "open"
    /\ UNCHANGED loadVars
    /\ UNCHANGED <<graphs, graph_list, i, G, results_centralities, dict_evaluate,
                   results_connectivity, results_df, failed, incidents, summary>>
    /\ UNCHANGED runnerVars

\* Lines 12-13: the file is opened.
Open ==
    /\ pc = "open" /\ pc' = "read"
    /\ loaded' = <<>>
    /\ UNCHANGED <<nlines, mainVars, runnerVars>>

\* Line 13: the entry cannot be opened (OSError).
OpenFails ==
    /\ pc = "open"
    /\ MainExcept("open", 0, <<>>)
    /\ UNCHANGED <<nfiles, file, graphs, graph_list, i, G, results_centralities,
                   dict_evaluate, results_connectivity, results_df, summary>>
    /\ UNCHANGED <<loadVars, runnerVars>>

\* Lines 14-20: a blank line or the header is skipped.
ReadSkipped ==
    /\ pc = "read" /\ nlines < MaxLines
    /\ \E line \in {"", ">>graph6<<"} : nlines' = nlines + 1
    /\ UNCHANGED <<pc, loaded, mainVars, runnerVars>>

\* Lines 14-28: a line is decoded and appended.
ReadDecoded ==
    /\ pc = "read" /\ nlines < MaxLines
    /\ \E line \in EncodedLines :
          /\ decode(line).ok
          /\ loaded' = Append(loaded, decode(line).val)
    /\ nlines' = nlines + 1
    /\ UNCHANGED <<pc, mainVars, runnerVars>>

\* Lines 14-28 have no handler around the decoders.
LoadSkipsBadLine == TRUE

load_catches == FALSE

\* Lines 24/27: the decoder raises; load_graphs_from_graph6_file has no
\* handler, so main's except clause gets it and the list so far is lost.
ReadDecodeError ==
    /\ pc = "read" /\ nlines < MaxLines
    /\ \E line \in EncodedLines : ~decode(line).ok
    /\ nlines' = nlines + 1
    /\ IF load_catches
       THEN /\ incidents' = Append(incidents, [file |-> file, kind |-> "decode",
                                               at |-> Len(loaded), list |-> loaded])
            /\ UNCHANGED <<pc, loaded, failed>>
       ELSE /\ loaded' = <<>>
            /\ MainExcept("decode", Len(loaded), loaded)
    /\ UNCHANGED <<nfiles, file, graphs, graph_list, i, G, results_centralities,
                   dict_evaluate, results_connectivity, results_df, summary>>
    /\ UNCHANGED runnerVars

\* Lines 29, 207-210: end of file; the list is returned, stored in graphs,
\* and the loop over it starts.
ReadEOF ==
    /\ pc = "read"
    /\ graph_list' = loaded
    /\ graphs' = dict_set(graphs, file, loaded)
    /\ i' = 0
    /\ pc' = "loop"
    /\ LoadGone
    /\ UNCHANGED <<nfiles, file, G, results_centralities, dict_evaluate,
                   results_connectivity, results_df, failed, incidents, summary>>
    /\ UNCHANGED runnerVars

\* Line 210: the next graph of the list.
LoopNext ==
    /\ pc = "loop" /\ i < Len(graph_list)
    /\ G' = graph_list[i + 1]
    /\ pc' = "A"
    /\ UNCHANGED <<nfiles, file, graphs, graph_list, i, results_centralities, dict_evaluate,
                   results_connectivity, results_df, failed, incidents, summary>>
    /\ UNCHANGED <<loadVars, runnerVars>>

\* Lines 210, 236: the list is exhausted.
LoopEnd ==
    /\ pc = "loop" /\ i >= Len(graph_list)
    /\ pc' = "listdir"
    /\ UNCHANGED <<mainVars, loadVars, runnerVars>>

\* A step of main that only moves on.
Step(from, to) ==
    /\ pc = from /\ pc' = to
    /\ UNCHANGED <<mainVars, loadVars, runnerVars>>

\* A step of main that raises inside the try.
StepRaises(from) ==
    /\ pc = from
    /\ MainExcept("step", i, graph_list)
    /\ UNCHANGED <<nfiles, file, graphs, graph_list, i, G, results_centralities,
                   dict_evaluate, results_connectivity, results_df, summary>>
    /\ UNCHANGED <<loadVars, runnerVars>>

\* Line 212: visualize_graph (the plotting library's work).
Visualize == Step("A", "A2")

VisualizeRaises == StepRaises("A")

\* Line 214: plot_adjacency_matrix.
PlotAdjacency == Step("A2", "B")

PlotAdjacencyRaises == StepRaises("A2")

\* Line 88, entered from line 216 or 220 with a catalog.
EnterRun(from, cat, who) ==
    /\ pc = from
    /\ measures' = cat /\ k' = 1 /\ results' = <<>> /\ ret' = who
    /\ failing' \in FailChoices(cat)
    /\ calls' = <<>> /\ inflight' = "none" /\ diagnostics' = <<>>
    /\ pc' = "run_loop"
    /\ UNCHANGED <<mainVars, loadVars>>

\* Line 216.
CallCentralities == EnterRun("B", dict_centralities, "B")

\* Lines 129, 216: results_centralities = the returned mapping.
RunReturnB ==
    /\ pc = "run_loop" /\ k > Len(measures) /\ ret = "B"
    /\ results_centralities' = results
    /\ pc' = "C"
    /\ RunnerGone
    /\ UNCHANGED <<nfiles, file, graphs, graph_list, i, G, dict_evaluate,
                   results_connectivity, results_df, failed, incidents, summary>>
    /\ UNCHANGED loadVars

\* Line 218.
Evaluate ==
    /\ pc = "C" /\ evaluate_connectivity(G).ok
    /\ dict_evaluate' = evaluate_connectivity(G)
    /\ pc' = "C2"
    /\ UNCHANGED <<nfiles, file, graphs, graph_list, i, G, results_centralities,
                   results_connectivity, results_df, failed, incidents, summary>>
    /\ UNCHANGED <<loadVars, runnerVars>>

EvaluateRaises ==
    /\ pc = "C" /\ ~evaluate_connectivity(G).ok
    /\ StepRaises("C")

\* Line 220.
CallConnectivity == EnterRun("C2", dict_connectivity, "C2")

\* Lines 129, 220.
RunReturnC2 ==
    /\ pc = "run_loop" /\ k > Len(measures) /\ ret = "C2"
    /\ results_connectivity' = results
    /\ pc' = "row"
    /\ RunnerGone
    /\ UNCHANGED <<nfiles, file, graphs, graph_list, i, G, results_centralities,
                   dict_evaluate, results_df, failed, incidents, summary>>
    /\ UNCHANGED loadVars

\* Lines 222-231: the row is built and appended; the loop goes on.
AppendRow ==
    /\ pc = "row"
    /\ results_df' = concat(results_df,
                            <<new_row(file, i, G, results_centralities,
                                      results_connectivity, dict_evaluate.val)>>)
    /\ i' = i + 1
    /\ pc' = "loop"
    /\ UNCHANGED <<nfiles, file, graphs, graph_list, G, results_centralities,
                   dict_evaluate, results_connectivity, failed, incidents, summary>>
    /\ UNCHANGED <<loadVars, runnerVars>>

\* Lines 222-231 raise (the table library's failure).
AppendRowRaises == StepRaises("row")

\* Lines 238-242: the listing is exhausted; the summary is printed.
Summary ==
    /\ pc = "listdir"
    /\ summary' = summary_lines(graphs)
    /\ pc' = "done"
    /\ UNCHANGED <<nfiles, file, graphs, graph_list, i, G, results_centralities,
                   dict_evaluate, results_connectivity, results_df, failed, incidents>>
    /\ UNCHANGED <<loadVars, runnerVars>>

Next ==
    \/ ListDir \/ ListDirFails \/ NextFileOther \/ NextFileShard \/ Open \/ OpenFails
    \/ ReadSkipped \/ ReadDecoded \/ ReadDecodeError \/ ReadEOF
    \/ LoopNext \/ LoopEnd
    \/ Visualize \/ VisualizeRaises \/ PlotAdjacency \/ PlotAdjacencyRaises
    \/ CallCentralities \/ RunCall \/ RunMeasureDone \/ RunMeasureError \/ RunReturnB
    \/ Evaluate \/ EvaluateRaises
    \/ CallConnectivity \/ RunReturnC2
    \/ AppendRow \/ AppendRowRaises
    \/ Summary

Spec == MainInit /\ [][Next]_vars

CountOf(seq, x) == Cardinality({j \in DOMAIN seq : seq[j] = x})

\* ------------------------------------------------------ claims on Spec
FileKey == Key("File")

IndexKey == Key("Graph_Index")

RowsOf(f) == {j \in DOMAIN results_df : results_df[j][FileKey] = f}

GraphNames == {graphs[j].name : j \in DOMAIN graphs}

GraphsOf(f) == graphs[CHOOSE j \in DOMAIN graphs : graphs[j].name = f].list

\* The shards met so far that were dealt with: each is in graphs or reported.
Shards == GraphNames \cup {failed[j] : j \in DOMAIN failed}

SummaryLine(f, list) ==
    \E m \in DOMAIN summary :
        summary[m] = [name |-> f, nodes |-> total_nodes(list), edges |-> total_edges(list)]

\* The positions of main at which a graph is being processed.
Processing == {"A", "A2", "B", "C", "C2", "row", "run_loop", "run_wait"}

AtListing == {"listdir", "done"}

\* C4: a shard with a line that fails to decode is abandoned: it has no row,
\* its graphs (those decoded before the line too) are not kept and none is
\* processed, the failure is reported once, and main is back at the listing,
\* where the next shard can be taken.
C4_DecodeFailureAbandonsShard ==
    \A n \in DOMAIN incidents : incidents[n].kind = "decode" =>
        LET f == incidents[n].file
        IN /\ RowsOf(f) = {}
           /\ f \notin GraphNames
           /\ CountOf(failed, f) = 1
           /\ file = f => pc \in AtListing
           /\ file # f => file.name > f.name
           /\ (file = f /\ pc = "listdir" /\ nfiles < MaxFiles) => ENABLED NextFileShard

C4_Witness ==
    /\ pc = "done"
    /\ \E n \in DOMAIN incidents :
          /\ incidents[n].kind = "decode" /\ incidents[n].at >= 1
          /\ incidents[n].file.name = 1
          /\ failed = <<incidents[n].file>>
    /\ \E j \in DOMAIN results_df : results_df[j][FileKey].name = 2

\* os.listdir returned: the directory was readable.
DirectoryRead == pc # "start" /\ ~(pc = "crashed" /\ incidents = <<>>)

LoadFailed(f) ==
    \E n \in DOMAIN incidents : incidents[n].file = f /\ incidents[n].kind \in {"open", "decode"}

\* The run is at the end of main or can take a step.  At "C" and "run_wait"
\* the step is the return of a call, whose two outcomes (a value, an
\* exception) are the two actions of that position.
CanGoOn == pc = "done" \/ pc \in {"C", "run_wait"} \/ ENABLED Next

\* C5 as claimed: on a readable directory the run never ends by an error,
\* can always go on until the end of main, and at the end every shard has a
\* line in the summary.
C5_SummaryPerShard ==
    DirectoryRead =>
        /\ pc # "crashed"
        /\ CanGoOn
        /\ pc = "done" => \A f \in Shards : \E m \in DOMAIN summary : summary[m].name = f

\* C5, amended: on a readable directory the run never ends by an error and
\* can always go on until the end of main, whatever fails to decode and
\* whatever measures fail; at the end the summary has a line, with the node
\* and edge totals, for exactly the shards that were opened and decoded.
C5_RunCompletes ==
    DirectoryRead =>
        /\ pc # "crashed"
        /\ CanGoOn
        /\ pc = "done" =>
              /\ \A f \in Shards :
                    IF LoadFailed(f) THEN \A m \in DOMAIN summary : summary[m].name # f
                    ELSE f \in GraphNames /\ SummaryLine(f, GraphsOf(f))
              /\ \A m \in DOMAIN summary : summary[m].name \in Shards

AllCentralitiesFailed(row) ==
    \A key \in DOMAIN row : key[1] # "Centrality"

C5_Witness ==
    /\ pc = "done"
    /\ \E n \in DOMAIN incidents : incidents[n].kind = "decode"
    /\ \E j \in DOMAIN results_df : AllCentralitiesFailed(results_df[j])
    /\ Len(summary) = 1

RowBefore(a, b) ==
    \/ a[FileKey].name < b[FileKey].name
    \/ a[FileKey] = b[FileKey] /\ a[IndexKey] < b[IndexKey]

\* C6: the table only grows at its end, one row per processed graph: a step
\* keeps every row at its position and unchanged, and adds at most one row,
\* which it does exactly when the row of a graph is appended; the rows are
\* in processing order (shard order, then index in the shard).
C6_AppendOnly ==
    /\ [][/\ Len(results_df') \in {Len(results_df), Len(results_df) + 1}
          /\ \A j \in DOMAIN results_df : results_df'[j] = results_df[j]
          /\ Len(results_df') = Len(results_df) + 1 <=> (pc = "row" /\ pc' = "loop")
          /\ (pc = "row" /\ pc' = "loop") =>
                /\ results_df'[Len(results_df')][FileKey] = file
                /\ results_df'[Len(results_df')][IndexKey] = i]_vars
    /\ [](\A a, b \in DOMAIN results_df : a < b => RowBefore(results_df[a], results_df[b]))

C6_Witness ==
    /\ Len(results_df) = 3
    /\ results_df[1][FileKey].name = 1 /\ results_df[1][IndexKey] = 0
    /\ results_df[2][FileKey].name = 1 /\ results_df[2][IndexKey] = 1
    /\ results_df[3][FileKey].name = 2 /\ results_df[3][IndexKey] = 0
    /\ AllCentralitiesFailed(results_df[1]) /\ ~AllCentralitiesFailed(results_df[2])

\* The graph a row was built from.
RowGraph(row) == GraphsOf(row[FileKey])[row[IndexKey] + 1]

\* C8 as claimed: the row of the 6-node example graph has 6 nodes, 8 edges,
\* 1 component and diameter 2.
C8_ExampleOneComponent ==
    \A j \in DOMAIN results_df : RowGraph(results_df[j]) = ExampleG =>
        /\ results_df[j][Key("Num_Nodes")] = 6 /\ results_df[j][Key("Num_Edges")] = 8
        /\ results_df[j][Key(KeyComponents)] = 1
        /\ results_df[j][Key(KeyDiameter)] = 2

\* C8, amended: the row of the 6-node example graph has 6 nodes, 8 edges,
\* 2 components (node 6 has no edge), largest component 5 and diameter 2.
C8_ExampleTwoComponents ==
    \A j \in DOMAIN results_df : RowGraph(results_df[j]) = ExampleG =>
        /\ results_df[j][Key("Num_Nodes")] = 6 /\ results_df[j][Key("Num_Edges")] = 8
        /\ results_df[j][Key(KeyComponents)] = 2
        /\ results_df[j][Key(KeyLargest)] = 5
        /\ results_df[j][Key(KeyDiameter)] = 2

C8_Witness ==
    \E j \in DOMAIN results_df :
        /\ RowGraph(results_df[j]) = ExampleG
        /\ results_df[j][Key("Num_Edges")] = 8
        /\ results_df[j][Key(KeyComponents)] = 2

\* In a run of a catalog the measures are invoked in order, one at a time:
\* a call is made only when the one before has returned or raised.
MeasuresOneAtATime ==
    /\ pc = "run_wait" => inflight = measures[k].label /\ Len(calls) = k
    /\ pc = "run_loop" => inflight = "none" /\ Len(calls) = k - 1
    /\ pc \in {"run_wait", "run_loop"} =>
          \A j \in DOMAIN calls : calls[j].label = measures[j].label

\* C9 as claimed: graph j + 1 of a shard is decoded only when graph j has
\* been through all its steps, and the measures run one at a time.
C9_DecodeAfterProcessing ==
    /\ pc = "read" => Len(loaded) <= 1
    /\ pc \in Processing \cup {"loop"} => Len(graph_list) <= i + 1
    /\ MeasuresOneAtATime

\* C9, amended: all the graphs of a shard are decoded before the first is
\* processed; then they are processed one at a time, graph i only when the
\* rows of graphs 0..i-1 are in the table; and the measures run one at a time.
C9_OneGraphAtATime ==
    /\ pc \in {"open", "read"} => RowsOf(file) = {}
    /\ pc \in Processing =>
          /\ loaded = <<>>
          /\ file \in GraphNames /\ graph_list = GraphsOf(file)
          /\ i < Len(graph_list) /\ G = graph_list[i + 1]
          /\ {results_df[j][IndexKey] : j \in RowsOf(file)} = 0..(i - 1)
          /\ Cardinality(RowsOf(file)) = i
    /\ MeasuresOneAtATime

C9_Witness ==
    /\ pc = "run_wait" /\ ret = "C2" /\ k = 3
    /\ i = 1 /\ Len(graph_list) = 3
    /\ Cardinality(RowsOf(file)) = 1

\* C10: when a step of main other than a measure raises on graph i of a
\* decoded shard, the table has that shard's rows for graphs 0..i-1 and no
\* other row of it, the failure is reported once, main is back at the
\* listing, and the final summary lists the shard with the totals of all its
\* decoded graphs.
C10_StepFailureKeepsEarlierRows ==
    \A n \in DOMAIN incidents : incidents[n].kind = "step" =>
        LET f == incidents[n].file
            at == incidents[n].at
            list == incidents[n].list
        IN /\ at < Len(list)
           /\ {results_df[j][IndexKey] : j \in RowsOf(f)} = 0..(at - 1)
           /\ Cardinality(RowsOf(f)) = at
           /\ CountOf(failed, f) = 1
           /\ file = f => pc \in AtListing
           /\ file # f => file.name > f.name
           /\ pc = "done" => SummaryLine(f, list)

C10_Witness ==
    /\ pc = "done"
    /\ \E n \in DOMAIN incidents :
          /\ incidents[n].kind = "step" /\ incidents[n].at = 1
          /\ Len(incidents[n].list) = 2
          /\ incidents[n].file.name = 1
          /\ Cardinality(RowsOf(incidents[n].file)) = 1
    /\ \E j \in DOMAIN results_df : results_df[j][FileKey].name = 2
    /\ Len(summary) = 2

\* ------------------------------------------------ claims on RunnerSpec
Raises(entry) == ~entry.func.out.ok

Returned == pc = "run_returned"

\* calculate_centralities as one function of the catalog (lines 88-129):
\* the mapping it returns.
RECURSIVE calculate_centralities(_, _, _, _, _)
calculate_centralities(g, cat, fails, j, res) ==
    IF j > Len(cat) THEN res
    ELSE LET out == CallOutcome(cat[j], g, fails)
             st == IF out.ok THEN store_result(res, cat[j].label, out.val) ELSE out
         IN calculate_centralities(g, cat, fails, j + 1, IF st.ok THEN st.val ELSE res)

\* The catalog with the measure at position j succeeding instead.
WithSuccess(cat, j) == [cat EXCEPT ![j].func = Stub(Ok(Result("number", <<0>>)))]

\* C1: failure isolation.  The error of a measure never leaves
\* calculate_centralities; and when exactly one measure of the catalog raises,
\* every measure was invoked in declared order, every other label has in the
\* returned mapping what it would have had the failing measure succeeded, the
\* failing label is absent, and one diagnostic names it.
C1_FailureIsolation ==
    /\ pc # "run_raised"
    /\ (Returned /\ Cardinality({j \in DOMAIN measures : Raises(measures[j])}) = 1) =>
          LET f == CHOOSE j \in DOMAIN measures : Raises(measures[j])
              fl == measures[f].label
              hyp == calculate_centralities(G, WithSuccess(measures, f), failing, 1, <<>>)
          IN /\ Len(calls) = Len(measures)
             /\ \A j \in DOMAIN measures : calls[j].label = measures[j].label
             /\ \A l \in Labels(measures) \ {fl} :
                   /\ l \in DOMAIN results <=> l \in DOMAIN hyp
                   /\ l \in DOMAIN results => results[l] = hyp[l]
             /\ fl \notin DOMAIN results
             /\ CountOf(diagnostics, fl) = 1

C1_Witness ==
    /\ Returned /\ Len(measures) = 3
    /\ {j \in DOMAIN measures : Raises(measures[j])} = {2}
    /\ Len(calls) = 3
    /\ "Degree" \in DOMAIN results /\ "Graph Density" \in DOMAIN results
    /\ diagnostics = <<"Katz Centrality">>

IsScalarOrSet(out) == out.ok /\ out.val.type \in {"number", "set"}

\* C2: after a run, every measure that returned a number or a set has its
\* value, as returned, under its label in the mapping, so that the labels of
\* the mapping are exactly the labels of the measures that did not raise.
C2_ScalarsStored ==
    Returned =>
        /\ \A j \in DOMAIN measures :
              IsScalarOrSet(measures[j].func.out) =>
                 /\ measures[j].label \in DOMAIN results
                 /\ results[measures[j].label] = measures[j].func.out.val
        /\ DOMAIN results = {measures[j].label : j \in {n \in DOMAIN measures : ~Raises(measures[n])}}

\* The per-node stubs of the catalog with at least one value.
PerNode(entry) ==
    /\ entry.func.out.ok /\ entry.func.out.val.type = "dict"
    /\ Len(entry.func.out.val.values) >= 1

SumSquares(values) == sum([j \in DOMAIN values |-> values[j] * values[j]])

\* C7: a per-node result with N >= 1 values is reduced to its average sum/N,
\* its minimum, its maximum and the square root of its population variance
\* (N * sum of squares - square of the sum) / N^2, the root agreeing to two
\* decimals in general; [1,2,3,4] gives 5/2, 1, 4 and the root of 1.25
\* (1.1180), and one value gives the deviation 0 and no error.
C7_DistributionSummary ==
    Returned =>
      \A j \in DOMAIN measures : PerNode(measures[j]) =>
        LET values == measures[j].func.out.val.values
            N == Len(values)
            l == measures[j].label
            num == N * SumSquares(values) - sum(values) * sum(values)
        IN /\ l \in DOMAIN results
           /\ l \notin {diagnostics[d] : d \in DOMAIN diagnostics}
           /\ LET st == results[l]
                  sd2 == st[KeyStdDev] \div 100
              IN /\ st[KeyAverage].d > 0
                 /\ st[KeyAverage].n * N = sum(values) * st[KeyAverage].d
                 /\ st[KeyMinimum] \in {values[x] : x \in DOMAIN values}
                 /\ \A x \in DOMAIN values : st[KeyMinimum] <= values[x] /\ values[x] <= st[KeyMaximum]
                 /\ st[KeyMaximum] \in {values[x] : x \in DOMAIN values}
                 /\ sd2 * sd2 * N * N <= num * 10000
                 /\ num * 10000 < (sd2 + 1) * (sd2 + 1) * N * N
                 /\ (values = <<1, 2, 3, 4>>) =>
                       /\ st[KeyAverage] = [n |-> 5, d |-> 2]
                       /\ st[KeyMinimum] = 1 /\ st[KeyMaximum] = 4
                       /\ st[KeyStdDev] = 11180
                 /\ (N = 1) => st[KeyStdDev] = 0

C7_Witness ==
    /\ Returned
    /\ measures = <<Entry("Degree", Stub(Ok(Result("dict", <<1, 2, 3, 4>>))))>>
    /\ "Degree" \in DOMAIN results
    /\ results["Degree"][KeyStdDev] = 11180
    /\ diagnostics = <<>>
\* -------------------------------------------------- claims on ConnSpec
\* A maximal connected vertex set: not empty, no edge leaves it, and every
\* split of it into two parts has an edge across.
MaximalConnected(g, S) ==
    /\ S # {}
    /\ \A e \in g.edges : e \cap S # {} => e \subseteq S
    /\ \A T \in SUBSET S : (T # {} /\ T # S) =>
          \E e \in g.edges : e \cap T # {} /\ e \cap (S \ T) # {}

MaximalConnectedSets(g) == {S \in SUBSET g.nodes : MaximalConnected(g, S)}

\* The pairs joined by a walk of at most n edges.
RECURSIVE Within(_, _)
Within(g, n) ==
    IF n = 0 THEN {<<v, v>> : v \in g.nodes}
    ELSE LET W == Within(g, n - 1)
         IN W \cup {p \in g.nodes \X g.nodes :
                      \E w \in g.nodes : <<p[1], w>> \in W /\ {w, p[2]} \in g.edges}

\* The least n such that every pair of nodes is joined by a walk of at most n edges.
IsDiameter(g, n) ==
    /\ Within(g, n) = g.nodes \X g.nodes
    /\ \A m \in 0..(n - 1) : Within(g, m) # g.nodes \X g.nodes

\* C3: evaluate_connectivity never raises on a graph with a node, and returns
\* the number of maximal connected vertex sets (>= 1), the greatest size among
\* them (>= 1) and the diameter of the subgraph induced by one of greatest
\* size (0 for a single node); two disjoint triangles give 2, 3 and 1.
C3_ConnectivityTotal ==
    (pc = "conn_return" /\ G.nodes # {}) =>
        /\ dict_evaluate.ok
        /\ LET r == dict_evaluate.val
               comps == MaximalConnectedSets(G)
           IN /\ r[KeyComponents] = Cardinality(comps) /\ r[KeyComponents] >= 1
              /\ r[KeyLargest] >= 1
              /\ \E S \in comps : Cardinality(S) = r[KeyLargest]
              /\ \A S \in comps : Cardinality(S) <= r[KeyLargest]
              /\ \E S \in comps : /\ Cardinality(S) = r[KeyLargest]
                                  /\ IsDiameter(subgraph(G, S), r[KeyDiameter])
              /\ r[KeyLargest] = 1 => r[KeyDiameter] = 0
              /\ G = TwoTriangles =>
                    r[KeyComponents] = 2 /\ r[KeyLargest] = 3 /\ r[KeyDiameter] = 1

C3_Witness ==
    /\ pc = "conn_return" /\ G = TwoTriangles /\ dict_evaluate.ok
    /\ dict_evaluate.val[KeyComponents] = 2
    /\ dict_evaluate.val[KeyDiameter] = 1
====
